---- MODULE Spec2Model ----
(***************************************************************************)
(* Model of the deinflect crate (src/src/lib.rs): the suffix trie          *)
(* (Tree / Node), the lazily built LOOKUP_TREE, the worklist expansion     *)
(* Deinflections::from_word, from_str over the prefixes of a string, and   *)
(* the backward reconstruction Deinflections::chars_rev / to_string.       *)
(*                                                                         *)
(* Text is a sequence of characters; a character is a positive number      *)
(* (its code point), which is also the order the trie sorts children by.   *)
(* Vec indices are 0-based as in the source: At(v, i) reads v[i].          *)
(* Bit sets (Rules, Reasons) are sets of flag names: | is \cup, intersects *)
(* is a non-empty \cap, empty() is {}.  usize arithmetic never comes near  *)
(* 2^64 with the bounded inputs below, so + is modelled without wrap and   *)
(* saturating_sub explicitly.                                              *)
(***************************************************************************)
EXTENDS Integers, Sequences, FiniteSets, TLC

VARIABLES
    table,        \* INFLECTION_RULES: the static rule table (rules.rs)
    tree,         \* LOOKUP_TREE: [init |-> BOOLEAN, root |-> Node]
    this,         \* the Deinflections value: [source, deinflections]
    i,            \* from_word: index of the candidate being processed
    buffer,       \* from_word: children found for candidate i, not yet appended
    prev,         \* from_word: copy of this.deinflections[i]
    submatches,   \* the iterator returned by get_submatches
    pc,           \* position of the running call
    gen,          \* ghost: rule reference that generated each candidate
    log,          \* ghost: <<key, info>> of every Tree::insert, in call order
    yielded,      \* ghost: items the get_submatches iterator has returned
    out,          \* result of the last to_string call
    calls,        \* ghost: the values from_word has returned, in return order
    scan,         \* from_str: the scan state and the Vec being collected
    rev,          \* the chars_rev iterator a caller holds, and what it has yielded
    cell          \* the once-cell of LOOKUP_TREE and the threads that deref it

vars == <<table, tree, this, i, buffer, prev, submatches, pc, gen, log, yielded, out,
          calls, scan, rev, cell>>

-----------------------------------------------------------------------------
(* Bounds *)

MaxWordLen == 1      \* longest original word of a pushed forest
MaxRemove == 2       \* largest replace_from_back of a pushed candidate
MaxPush == 3         \* most candidates pushed into a hand-built forest
NumChars == 2        \* size of the alphabet of trie keys, sources and input words
MaxKeyLen == 1       \* longest key inserted into a hand-built tree
MaxInserts == 2      \* most Tree::insert calls on a hand-built tree
MaxSourceLen == 3    \* longest character source of a hand-built query
MaxInputLen == 3     \* longest word handed to from_word
MaxForest == 6       \* from_word is followed while the forest has at most this many candidates
MaxCalls == 3        \* most from_word calls one process makes in a row
MaxCallLen == 1      \* longest word of a process that calls from_word repeatedly
NumThreads == 2      \* threads that deref LOOKUP_TREE concurrently
MaxLayers == 3       \* most candidates of a forest that is read one character at a time
MaxPolls == 2        \* most next() calls on a chars_rev iterator after its first None

-----------------------------------------------------------------------------
(* Generic helpers *)

None == [some |-> FALSE, val |-> 0]
Some(v) == [some |-> TRUE, val |-> v]

At(v, n) == v[n + 1]

Min(a, b) == IF a < b THEN a ELSE b

RECURSIVE Reverse(_)
Reverse(s) == IF s = <<>> THEN <<>> ELSE Append(Reverse(Tail(s)), Head(s))

DropLast(x, n) == SubSeq(x, 1, Len(x) - Min(n, Len(x)))

IsSuffix(s, t) == Len(s) <= Len(t) /\ SubSeq(t, Len(t) - Len(s) + 1, Len(t)) = s

IsPrefix(s, t) == Len(s) <= Len(t) /\ SubSeq(t, 1, Len(s)) = s

SaturatingSubAbsDiff(a, b) == IF a > b THEN a - b ELSE b - a

SaturatingSub(a, b) == IF a > b THEN a - b ELSE 0

-----------------------------------------------------------------------------
(* DeinflectionSource, DeinflectionData *)

Original == [tag |-> "Original", i |-> 0]
Deinflection(n) == [tag |-> "Deinflection", i |-> n]

DeinflectionData(source, replace_from_back, replace_with, replace_with_chars, rules, reasons) ==
    [source |-> source,
     replace_from_back |-> replace_from_back,
     replace_with |-> replace_with,
     replace_with_chars |-> replace_with_chars,
     rules |-> rules,
     reasons |-> reasons]

-----------------------------------------------------------------------------
(* str.chars().rev().skip(n): the text s, the number k of characters not   *)
(* yet taken (they are s[1..k]; the next one taken is s[k]) and the        *)
(* pending skip n, which Skip applies on the first call of next.           *)

SkipRevNoSkip(s, n) == [s |-> s, k |-> Len(s), n |-> 0]

SkipRev(s, n) == [s |-> s, k |-> Len(s), n |-> n]

\* Skip::next: with n > 0 it is iter.nth(n), which drops n items and
\* returns the next one, or None when fewer than n + 1 are left.
\* An iterator that starts over once it has reported its end.
SkipRevNextRestart(it) ==
    IF it.k > it.n
    THEN [it |-> [it EXCEPT !.k = it.k - it.n - 1, !.n = 0], item |-> Some(it.s[it.k - it.n])]
    ELSE [it |-> [it EXCEPT !.k = Len(it.s), !.n = 0], item |-> None]

SkipRevNext(it) ==
    IF it.k > it.n
    THEN [it |-> [it EXCEPT !.k = it.k - it.n - 1, !.n = 0], item |-> Some(it.s[it.k - it.n])]
    ELSE [it |-> [it EXCEPT !.k = 0, !.n = 0], item |-> None]

-----------------------------------------------------------------------------
(* Deinflections::chars_rev *)

\* Indexing a Vec: None stands for the panic of an index out of bounds.
IndexClamped(v, n) == IF v = <<>> THEN None ELSE Some(v[Min(n, Len(v) - 1) + 1])

Index(v, n) == IF n < Len(v) THEN Some(v[n + 1]) ELSE None

\* The state captured by the closure of chars_rev, once the candidate has
\* been read from the list.
CharsRevOf(data) ==
    [data |-> data,
     chars |-> SkipRev(data.replace_with, 0),
     carry_over_replace_from_back |-> 0,
     processing_original |-> FALSE]

\* chars_rev on a handle within the list
CharsRev(self, d) == CharsRevOf(At(self.deinflections, d))

\* The carry handed to the next layer up when `replace` characters are
\* removed from a layer holding replace_with_chars characters.
CarryOverNoCarry(replace, replace_with_chars) == 0

\* A carry that forgets what the layer absorbed.
CarryOverWhole(replace, replace_with_chars) == replace

CarryOver(replace, replace_with_chars) == SaturatingSub(replace, replace_with_chars)

\* The arm `match data.source` of the closure: the state after the move
\* from an exhausted layer to the original word or to the parent.
CharsRevAdvance(self, st) ==
    IF st.data.source.tag = "Original"
    THEN [st EXCEPT !.processing_original = TRUE,
                    !.chars = SkipRev(self.source,
                        st.data.replace_from_back + st.carry_over_replace_from_back)]
    ELSE LET replace == st.data.replace_from_back + st.carry_over_replace_from_back
             data == At(self.deinflections, st.data.source.i)
         IN [st EXCEPT !.data = data,
                       !.chars = SkipRev(data.replace_with, replace),
                       !.carry_over_replace_from_back =
                           CarryOver(replace, data.replace_with_chars)]

\* One call of the closure: loops over exhausted layers until a character
\* is found or the original word is exhausted.
RECURSIVE CharsRevNext(_, _)
CharsRevNext(self, st) ==
    LET r == SkipRevNext(st.chars)
    IN IF r.item.some
       THEN [st |-> [st EXCEPT !.chars = r.it], item |-> r.item]
       ELSE IF st.processing_original
       THEN [st |-> [st EXCEPT !.chars = r.it], item |-> None]
       ELSE CharsRevNext(self, CharsRevAdvance(self, st))

\* collect(): call next until it returns None.
RECURSIVE CharsRevCollect(_, _, _)
CharsRevCollect(self, st, acc) ==
    LET r == CharsRevNext(self, st)
    IN IF r.item.some
       THEN CharsRevCollect(self, r.st, Append(acc, r.item.val))
       ELSE acc

\* Deinflections::to_string: collect chars_rev, then reverse.
ToStringOfNoReverse(self, data) == CharsRevCollect(self, CharsRevOf(data), <<>>)

ToStringOf(self, data) == Reverse(CharsRevCollect(self, CharsRevOf(data), <<>>))

\* to_string on a handle within the list
to_string(self, d) == ToStringOf(self, At(self.deinflections, d))

-----------------------------------------------------------------------------
(* Node<K, T>: [c, children, matches]; Tree<K, T> wraps the root node. *)

\* Tree::new: the root carries K::default().
EmptyNode == [c |-> 0, children |-> <<>>, matches |-> <<>>]

NewNode(c) == [c |-> c, children |-> <<>>, matches |-> <<>>]

Ok(n) == [ok |-> TRUE, i |-> n]
Err(n) == [ok |-> FALSE, i |-> n]

\* slice::binary_search_by_key over children[left..right], keyed by n.c
RECURSIVE BinarySearch(_, _, _, _)
BinarySearch(children, c, left, right) ==
    IF left < right
    THEN LET mid == left + ((right - left) \div 2)
             key == At(children, mid).c
         IN IF key < c THEN BinarySearch(children, c, mid + 1, right)
            ELSE IF key > c THEN BinarySearch(children, c, left, mid)
            ELSE Ok(mid)
    ELSE Err(left)

\* A search that only ever looks at the first child.
GetChildIndexNearest(node, c) ==
    LET found == BinarySearch(node.children, c, 0, Len(node.children))
    IN IF found.ok \/ found.i < Len(node.children) THEN Ok(found.i) ELSE found

GetChildIndexFirstOnly(node, c) ==
    IF node.children # <<>> /\ At(node.children, 0).c = c THEN Ok(0) ELSE Err(0)

\* Node::get_child_index
GetChildIndex(node, c) == BinarySearch(node.children, c, 0, Len(node.children))

\* An insert that ignores the index and puts the element last.
VecInsertAtEnd(v, n, x) == Append(v, x)

\* Vec::insert(index, element)
VecInsert(v, n, x) == SubSeq(v, 1, n) \o <<x>> \o SubSeq(v, n + 1, Len(v))

\* Vec::push on the matches of a node
PushMatchFront(matches, info) == <<info>> \o matches

PushMatch(matches, info) == Append(matches, info)

\* Node::insert; chars is what is left of the key iterator.
RECURSIVE Insert(_, _, _)
Insert(node, chars, info) ==
    IF chars = <<>>
    THEN [node EXCEPT !.matches = PushMatch(@, info)]
    ELSE LET c == Head(chars)
             found == GetChildIndex(node, c)
             children == IF found.ok THEN node.children
                         ELSE VecInsert(node.children, found.i, NewNode(c))
             next == found.i
         IN [node EXCEPT !.children =
                [children EXCEPT ![next + 1] = Insert(@, Tail(chars), info)]]

\* The node a walk stands on, given the child indices it descended by.
RECURSIVE NodeAt(_, _)
NodeAt(node, path) ==
    IF path = <<>> THEN node ELSE NodeAt(At(node.children, Head(path)), Tail(path))

-----------------------------------------------------------------------------
(* The character source handed to get_submatches: str.chars() in           *)
(* tests::tree, chars_rev(..) in from_word.                                *)

Chars(s) == [kind |-> "chars", s |-> s, pos |-> 0]

CharsRevSource(st) == [kind |-> "chars_rev", st |-> st]

SourceNext(self, src) ==
    IF src.kind = "chars"
    THEN IF src.pos < Len(src.s)
         THEN [src |-> [src EXCEPT !.pos = @ + 1], item |-> Some(At(src.s, src.pos))]
         ELSE [src |-> src, item |-> None]
    ELSE LET r == CharsRevNext(self, src.st)
         IN [src |-> [src EXCEPT !.st = r.st], item |-> r.item]

\* Node::get_submatches: the state captured by the closure.  path stands
\* for current_node; taken counts the characters obtained from the source.
GetSubmatches(chars) == [path |-> <<>>, matches_pos |-> 0, chars |-> chars, taken |-> 0]

\* A walk that fetches the next character before it looks at the matches
\* of the node it stands on.
RECURSIVE GetSubmatchesNextEager(_, _, _)
GetSubmatchesNextEager(root, self, it) ==
    LET current_node == NodeAt(root, it.path)
        r == SourceNext(self, it.chars)
        taken == IF r.item.some THEN it.taken + 1 ELSE it.taken
        found == GetChildIndex(current_node, r.item.val)
    IN IF it.matches_pos < Len(current_node.matches)
       THEN [it |-> [it EXCEPT !.matches_pos = @ + 1, !.chars = r.src, !.taken = taken],
             item |-> Some(At(current_node.matches, it.matches_pos))]
       ELSE IF ~r.item.some
       THEN [it |-> [it EXCEPT !.chars = r.src], item |-> None]
       ELSE IF ~found.ok
       THEN [it |-> [it EXCEPT !.chars = r.src, !.taken = taken], item |-> None]
       ELSE GetSubmatchesNextEager(root, self,
                [it EXCEPT !.path = Append(@, found.i), !.matches_pos = 0,
                           !.chars = r.src, !.taken = taken])

\* One call of the closure of get_submatches.
RECURSIVE GetSubmatchesNext(_, _, _)
GetSubmatchesNext(root, self, it) ==
    LET current_node == NodeAt(root, it.path)
    IN IF it.matches_pos < Len(current_node.matches)
       THEN [it |-> [it EXCEPT !.matches_pos = @ + 1],
             item |-> Some(At(current_node.matches, it.matches_pos))]
       ELSE LET r == SourceNext(self, it.chars)
            IN IF ~r.item.some
               THEN [it |-> [it EXCEPT !.chars = r.src], item |-> None]
               ELSE LET found == GetChildIndex(current_node, r.item.val)
                    IN IF ~found.ok
                       THEN [it |-> [it EXCEPT !.chars = r.src, !.taken = @ + 1],
                             item |-> None]
                       ELSE GetSubmatchesNext(root, self,
                                [it EXCEPT !.path = Append(@, found.i),
                                           !.matches_pos = 0,
                                           !.chars = r.src,
                                           !.taken = @ + 1])

-----------------------------------------------------------------------------
(* Hand-built forests, as the helper `push` of tests::deinflections_chars_rev *)
(* builds them.                                                             *)

\* Original words "a", "ab", "abc", ...: distinct characters, so that a
\* dropped or doubled character always shows in the text.
Words == {[j \in 1..n |-> j] : n \in 0..MaxWordLen}

\* Replacement texts (the &'static str of a rule's kana_out).
StaticTexts == {<<>>, <<7>>, <<8, 9>>}

NoOut == [op |-> "none", d |-> 0, text |-> <<>>, data |-> None, called |-> FALSE]

NoIter == [path |-> <<>>, matches_pos |-> 0, chars |-> [kind |-> "none"], taken |-> 0]

\* no from_str call is running
NoScan == [active |-> FALSE, s |-> <<>>, i |-> 0, chars |-> [s |-> <<>>, k |-> 0, n |-> 0], out |-> <<>>]

\* no chars_rev iterator is held
NoRev == [chosen |-> FALSE, d |-> 0, held |-> FALSE, st |-> [kind |-> "none"],
          emitted |-> <<>>, ended |-> FALSE, last |-> None]

\* no thread has touched LOOKUP_TREE
NoCell == [state |-> "uninit", builds |-> 0, th |-> <<>>]

InitChars ==
    /\ this \in {[source |-> w, deinflections |-> <<>>] : w \in Words}
    /\ out = NoOut
    /\ table = <<>>
    /\ tree = [init |-> FALSE, root |-> EmptyNode]
    /\ i = 0
    /\ buffer = <<>>
    /\ prev = DeinflectionData(Original, 0, <<>>, 0, {}, {})
    /\ submatches = NoIter
    /\ pc = "test"
    /\ gen = <<>>
    /\ log = <<>>
    /\ yielded = <<>>
    /\ calls = <<>>
    /\ scan = NoScan
    /\ rev = NoRev
    /\ cell = NoCell

\* tests::deinflections_chars_rev::push; as in the test, a forest is built
\* first and read afterwards.
Push(replace_with, replace_from_back, source) ==
    /\ pc = "test"
    /\ Len(this.deinflections) < MaxPush
    /\ ~out.called
    /\ this' = [this EXCEPT !.deinflections = Append(@,
                   DeinflectionData(source, replace_from_back, replace_with,
                                    Len(replace_with), {}, {}))]
    /\ out' = NoOut
    /\ UNCHANGED <<table, tree, i, buffer, prev, submatches, pc, gen, log, yielded, calls, scan, rev, cell>>

\* ds.to_string(d) on the handle push returned
ToStringCall(d) ==
    /\ pc = "test"
    /\ d >= 0
    /\ d < Len(this.deinflections)
    /\ out' = [op |-> "to_string", d |-> d, text |-> to_string(this, d), data |-> None,
                called |-> TRUE]
    /\ UNCHANGED <<table, tree, this, i, buffer, prev, submatches, pc, gen, log, yielded, calls, scan, rev, cell>>

PushAny ==
    \E t \in StaticTexts, n \in 0..MaxRemove :
        \E src \in {Original} \cup {Deinflection(p) : p \in 0..(Len(this.deinflections) - 1)} :
            Push(t, n, src)

\* Every candidate is the last one pushed in some forest, and its text
\* reads only its ancestors, so reading the last handle of every forest
\* reads every candidate.
ToStringAny == ToStringCall(Len(this.deinflections) - 1)

NextChars == PushAny \/ ToStringAny

SpecChars == InitChars /\ [][NextChars]_vars

-----------------------------------------------------------------------------
(* Hand-built forests read one character at a time: chars_rev on the last   *)
(* candidate pushed, next() until the end and a few times more.  With the   *)
(* iterator the model keeps the layers it has entered: for each the        *)
(* candidate, the skip its Skip adaptor was created with, the carry set on  *)
(* entering it and the characters yielded from it.                         *)

Layer(original, data, n, carry) ==
    [original |-> original, data |-> data, n |-> n, carry |-> carry, emitted |-> <<>>]

\* The layers one call of the closure enters, in order.
RECURSIVE LayersEntered(_, _)
LayersEntered(self, st) ==
    LET r == SkipRevNext(st.chars)
    IN IF r.item.some \/ st.processing_original
       THEN <<>>
       ELSE LET nx == CharsRevAdvance(self, st)
            IN << Layer(nx.processing_original, nx.data, nx.chars.n,
                        nx.carry_over_replace_from_back) >>
               \o LayersEntered(self, nx)

\* The parents of a pushed candidate: one of the two candidates pushed
\* last, and for the first two candidates the original word, so that the
\* chain of a candidate starts at index 0 or 1 and may leave indices out.
RevSources(list) ==
    (IF Len(list) <= 1 THEN {Original} ELSE {})
        \cup {Deinflection(p) : p \in {q \in {Len(list) - 2, Len(list) - 1} : q >= 0}}

\* push, while no iterator is held
RevPush ==
    /\ ~rev.held
    /\ Len(this.deinflections) < MaxLayers
    /\ \E t \in StaticTexts, n \in 0..MaxRemove :
          \E src \in RevSources(this.deinflections) : Push(t, n, src)

\* ds.chars_rev(d) on the last handle pushed
RevCharsRev ==
    /\ pc = "test"
    /\ ~rev.held
    /\ this.deinflections # <<>>
    /\ LET d == Len(this.deinflections) - 1
       IN rev' = [chosen |-> TRUE, d |-> d, held |-> TRUE, st |-> CharsRev(this, d),
                  emitted |-> <<>>, ended |-> FALSE, last |-> None,
                  layers |-> << Layer(FALSE, At(this.deinflections, d), 0, 0) >>,
                  late |-> <<>>]
    /\ UNCHANGED <<table, tree, this, i, buffer, prev, submatches, pc, gen, log, yielded, out,
                   calls, scan, cell>>

\* one next() on the iterator; after the first None the caller asks up to
\* MaxPolls times more
RevNext ==
    /\ pc = "test"
    /\ rev.held
    /\ rev.ended => Len(rev.late) < MaxPolls
    /\ LET q == CharsRevNext(this, rev.st)
           entered == rev.layers \o LayersEntered(this, rev.st)
       IN rev' = [rev EXCEPT
                    !.st = q.st,
                    !.emitted = IF q.item.some THEN Append(@, q.item.val) ELSE @,
                    !.ended = rev.ended \/ ~q.item.some,
                    !.layers = IF q.item.some
                               THEN [entered EXCEPT ![Len(entered)].emitted =
                                        Append(@, q.item.val)]
                               ELSE entered,
                    !.late = IF rev.ended THEN Append(@, q.item) ELSE @]
    /\ UNCHANGED <<table, tree, this, i, buffer, prev, submatches, pc, gen, log, yielded, out,
                   calls, scan, cell>>

NextRev == RevPush \/ RevCharsRev \/ RevNext

SpecRev == InitChars /\ [][NextRev]_vars

-----------------------------------------------------------------------------
(* Hand-built trees, as tests::tree builds and queries them. *)

Alphabet == 1..NumChars

TextsUpTo(n) == UNION {[1..k -> Alphabet] : k \in 0..n}

NoThis == [source |-> <<>>, deinflections |-> <<>>]

InitTree ==
    /\ tree = [init |-> TRUE, root |-> EmptyNode]
    /\ pc = "tree"
    /\ log = <<>>
    /\ submatches = NoIter
    /\ yielded = <<>>
    /\ this = NoThis
    /\ out = NoOut
    /\ table = <<>>
    /\ i = 0
    /\ buffer = <<>>
    /\ prev = DeinflectionData(Original, 0, <<>>, 0, {}, {})
    /\ gen = <<>>
    /\ calls = <<>>
    /\ scan = NoScan
    /\ rev = NoRev
    /\ cell = NoCell

\* tree.insert(chars, info)
TreeInsert(chars, info) ==
    /\ pc = "tree"
    /\ Len(log) < MaxInserts
    /\ tree' = [tree EXCEPT !.root = Insert(@, chars, info)]
    /\ log' = Append(log, [key |-> chars, info |-> info])
    /\ UNCHANGED <<table, this, i, buffer, prev, submatches, pc, gen, yielded, out, calls, scan, rev, cell>>

\* tree.get_submatches(chars): creates the iterator, consumes nothing yet
TreeGetSubmatches(chars) ==
    /\ pc = "tree"
    /\ submatches' = GetSubmatches(Chars(chars))
    /\ yielded' = <<>>
    /\ pc' = "walk"
    /\ UNCHANGED <<table, tree, this, i, buffer, prev, gen, log, out, calls, scan, rev, cell>>

\* one next() on the iterator; the consumer stops at the first None
TreeNext ==
    /\ pc = "walk"
    /\ LET r == GetSubmatchesNext(tree.root, this, submatches)
       IN /\ submatches' = r.it
          /\ IF r.item.some
             THEN yielded' = Append(yielded, r.item.val) /\ pc' = pc
             ELSE yielded' = yielded /\ pc' = "end"
    /\ UNCHANGED <<table, tree, this, i, buffer, prev, gen, log, out, calls, scan, rev, cell>>

TreeInsertAny == \E chars \in TextsUpTo(MaxKeyLen) : TreeInsert(chars, Len(log) + 1)

TreeGetSubmatchesAny == \E chars \in TextsUpTo(MaxSourceLen) : TreeGetSubmatches(chars)

NextTree == TreeInsertAny \/ TreeGetSubmatchesAny \/ TreeNext

SpecTree == InitTree /\ [][NextTree]_vars

-----------------------------------------------------------------------------
(* INFLECTION_RULES: a sequence of InflectionRules [reason, rules], each    *)
(* rule a RuleInfo [kana_in, kana_out, rules_in, rules_out].  The table of  *)
(* the crate is data kept outside lib.rs; the tables below are small tables *)
(* of the same shape (one reason flag per group), every sub-table of        *)
(* MasterTable with the order of its entries kept.                          *)

r(kana_in, kana_out, rules_in, rules_out) ==
    [kana_in |-> kana_in, kana_out |-> kana_out, rules_in |-> rules_in, rules_out |-> rules_out]

InflectionRules(reason, rules) == [reason |-> reason, rules |-> rules]

MasterTable ==
    << InflectionRules({"POLITE"},
          << r(<<2, 1>>, <<2>>,    {"V1"},       {"V1"}),
             r(<<1>>,    <<1, 2>>, {"V5"},       {"V5"}) >>),
       InflectionRules({"PAST"},
          << r(<<1>>,    <<2>>,    {"V1", "V5"}, {"V1"}),
             r(<<1>>,    <<2>>,    {"V1", "V5"}, {"V1"}),
             r(<<2, 2>>, <<>>,     {},           {"V5"}) >>),
       InflectionRules({"NEGATIVE"},
          << r(<<2>>,    <<1>>,    {"V5"},       {}),
             r(<<1>>,    <<1>>,    {"V1"},       {"V5"}),
             r(<<>>,     <<3>>,    {"V5"},       {"V1"}) >>) >>

RECURSIVE Pick(_, _, _)
Pick(rules, keep, off) ==
    IF rules = <<>> THEN <<>>
    ELSE (IF off + 1 \in keep THEN <<Head(rules)>> ELSE <<>>) \o Pick(Tail(rules), keep, off + 1)

RECURSIVE PickGroups(_, _, _)
PickGroups(groups, keep, off) ==
    IF groups = <<>> THEN <<>>
    ELSE <<InflectionRules(Head(groups).reason, Pick(Head(groups).rules, keep, off))>>
         \o PickGroups(Tail(groups), keep, off + Len(Head(groups).rules))

Tables == {PickGroups(MasterTable, keep, 0) : keep \in SUBSET (1..8)}

\* A &'static RuleInfo is the position <<group, rule>> of the entry.
RuleAt(tbl, ref) == tbl[ref[1]].rules[ref[2]]

ReasonAt(tbl, ref) == tbl[ref[1]].reason

RuleRefs(tbl) == UNION {{<<g, k>> : k \in 1..Len(tbl[g].rules)} : g \in 1..Len(tbl)}

NoRule == <<0, 0>>

InfoSwappedCounts(reason, rule, kana_in_chars, kana_out_chars) ==
    [reason |-> reason, rule |-> rule,
     kana_in_chars |-> kana_out_chars, kana_out_chars |-> kana_in_chars]

Info(reason, rule, kana_in_chars, kana_out_chars) ==
    [reason |-> reason, rule |-> rule,
     kana_in_chars |-> kana_in_chars, kana_out_chars |-> kana_out_chars]

\* LOOKUP_TREE initializer: the inner loop over the rules of group g, from rule k on
RECURSIVE InsertRules(_, _, _, _)
InsertRules(root, tbl, g, k) ==
    IF k > Len(tbl[g].rules) THEN root
    ELSE LET rule == tbl[g].rules[k]
         IN InsertRules(
                Insert(root, Reverse(rule.kana_in),
                       Info(tbl[g].reason, <<g, k>>, Len(rule.kana_in), Len(rule.kana_out))),
                tbl, g, k + 1)

\* LOOKUP_TREE initializer: the outer loop over the groups, from group g on
RECURSIVE InsertGroups(_, _, _)
InsertGroups(root, tbl, g) ==
    IF g > Len(tbl) THEN root
    ELSE InsertGroups(InsertRules(root, tbl, g, 1), tbl, g + 1)

\* Lazy deref of LOOKUP_TREE: the initializer runs on the first access only.
ForceReinsert(lazy, tbl) == [init |-> TRUE, root |-> InsertGroups(lazy.root, tbl, 1)]

Force(lazy, tbl) ==
    IF lazy.init THEN lazy ELSE [init |-> TRUE, root |-> InsertGroups(EmptyNode, tbl, 1)]

-----------------------------------------------------------------------------
(* Deinflections::from_word *)

RootData == DeinflectionData(Original, 0, <<>>, 0, {}, {})

\* the class gate of the for loop
CompatibleIntersectsOnly(prev_rules, rules_in) == prev_rules \cap rules_in # {}

CompatibleAlways(prev_rules, rules_in) == TRUE

Compatible(prev_rules, rules_in) == prev_rules = {} \/ prev_rules \cap rules_in # {}

\* the candidate pushed for a yielded Info
NewDeinflectionAsRoot(n, p, info, rule) ==
    DeinflectionData(Original, info.kana_in_chars, rule.kana_out,
                     info.kana_out_chars, rule.rules_out, p.reasons \cup info.reason)

NewDeinflectionReasonOnly(n, p, info, rule) ==
    DeinflectionData(Deinflection(n), info.kana_in_chars, rule.kana_out,
                     info.kana_out_chars, rule.rules_out, info.reason)

NewDeinflectionKeepReasons(n, p, info, rule) ==
    DeinflectionData(Deinflection(n), info.kana_in_chars, rule.kana_out,
                     info.kana_out_chars, rule.rules_out, p.reasons)

NewDeinflectionRulesUnion(n, p, info, rule) ==
    DeinflectionData(Deinflection(n), info.kana_in_chars, rule.kana_out,
                     info.kana_out_chars, p.rules \cup rule.rules_out,
                     p.reasons \cup info.reason)

NewDeinflection(n, p, info, rule) ==
    DeinflectionData(Deinflection(n), info.kana_in_chars, rule.kana_out,
                     info.kana_out_chars, rule.rules_out, p.reasons \cup info.reason)

\* Vec::append
VecAppendReversed(v, b) == v \o Reverse(b)

VecAppendReplace(v, b) == IF b = <<>> THEN v ELSE b

VecAppendFront(v, b) == b \o v

VecAppend(v, b) == v \o b

\* the condition of the while loop
LoopCondSkipLast(n, len) == n + 1 < len

LoopCond(n, len) == n < len

Init ==
    /\ table \in Tables
    /\ tree = [init |-> FALSE, root |-> EmptyNode]
    /\ this = NoThis
    /\ i = 0
    /\ buffer = <<>>
    /\ prev = RootData
    /\ submatches = NoIter
    /\ pc = "idle"
    /\ gen = <<>>
    /\ log = <<>>
    /\ yielded = <<>>
    /\ out = NoOut
    /\ calls = <<>>
    /\ scan = NoScan
    /\ rev = NoRev
    /\ cell = NoCell

\* entry: the forest holding the root candidate, i = 0, an empty buffer
FromWordCall(word) ==
    /\ pc = "idle"
    /\ this' = [source |-> word, deinflections |-> <<RootData>>]
    /\ i' = 0
    /\ buffer' = <<>>
    /\ gen' = <<NoRule>>
    /\ pc' = "loop"
    /\ UNCHANGED <<table, tree, prev, submatches, log, yielded, out, calls, scan, rev, cell>>

\* while i < len: copy the candidate, create its chars_rev and the query
FromWordLoop ==
    /\ pc = "loop"
    /\ LoopCond(i, Len(this.deinflections))
    /\ prev' = At(this.deinflections, i)
    /\ tree' = Force(tree, table)
    /\ submatches' = GetSubmatches(CharsRevSource(CharsRev(this, i)))
    /\ yielded' = <<>>
    /\ pc' = "for"
    /\ UNCHANGED <<table, this, i, buffer, gen, log, out, calls, scan, rev, cell>>

\* one round of the for loop: the next Info of the query, pushed if compatible
FromWordFor ==
    /\ pc = "for"
    /\ LET q == GetSubmatchesNext(tree.root, this, submatches)
           info == q.item.val
           rule == RuleAt(table, info.rule)
       IN /\ submatches' = q.it
          /\ IF q.item.some
             THEN /\ yielded' = Append(yielded, info)
                  /\ pc' = pc
                  /\ IF Compatible(prev.rules, rule.rules_in)
                     THEN /\ buffer' = Append(buffer, NewDeinflection(i, prev, info, rule))
                          /\ gen' = Append(gen, info.rule)
                     ELSE UNCHANGED <<buffer, gen>>
             ELSE /\ pc' = "append"
                  /\ UNCHANGED <<buffer, gen, yielded>>
    /\ UNCHANGED <<table, tree, this, i, prev, log, out, calls, scan, rev, cell>>

\* after the for loop: append the buffer, i += 1
FromWordAppend ==
    /\ pc = "append"
    /\ Len(this.deinflections) + Len(buffer) <= MaxForest
    /\ this' = [this EXCEPT !.deinflections = VecAppend(@, buffer)]
    /\ buffer' = <<>>
    /\ i' = i + 1
    /\ pc' = "loop"
    /\ UNCHANGED <<table, tree, prev, submatches, gen, log, yielded, out, calls, scan, rev, cell>>

\* the loop condition fails: from_word returns `this`
FromWordReturn ==
    /\ pc = "loop"
    /\ ~LoopCond(i, Len(this.deinflections))
    /\ pc' = "done"
    /\ calls' = Append(calls, this)
    /\ UNCHANGED <<table, tree, this, i, buffer, prev, submatches, gen, log, yielded, out,
                   scan, rev, cell>>

FromWordCallAny == \E word \in TextsUpTo(MaxInputLen) : FromWordCall(word)

Next == FromWordCallAny \/ FromWordLoop \/ FromWordFor \/ FromWordAppend \/ FromWordReturn

Spec == Init /\ [][Next]_vars

-----------------------------------------------------------------------------
(* A process that calls from_word several times: LOOKUP_TREE is a static,    *)
(* so the calls share it; every call builds its own Deinflections value.    *)

\* Three of the tables, under which every short word has a small forest.
SmallTables == {PickGroups(MasterTable, keep, 0) : keep \in {{1, 3, 5}, {3, 6, 7}, {3, 7, 8}}}

InitCalls ==
    /\ table \in SmallTables
    /\ tree = [init |-> FALSE, root |-> EmptyNode]
    /\ this = NoThis
    /\ i = 0
    /\ buffer = <<>>
    /\ prev = RootData
    /\ submatches = NoIter
    /\ pc = "idle"
    /\ gen = <<>>
    /\ log = <<>>
    /\ yielded = <<>>
    /\ out = NoOut
    /\ calls = <<>>
    /\ scan = NoScan
    /\ rev = NoRev
    /\ cell = NoCell

\* a further call after one has returned; the caller keeps the value it got
FromWordRecall(word) ==
    /\ pc = "done"
    /\ Len(calls) < MaxCalls
    /\ this' = [source |-> word, deinflections |-> <<RootData>>]
    /\ i' = 0
    /\ buffer' = <<>>
    /\ gen' = <<NoRule>>
    /\ pc' = "loop"
    /\ UNCHANGED <<table, tree, prev, submatches, log, yielded, out, calls, scan, rev, cell>>

FromWordCallShort == \E word \in TextsUpTo(MaxCallLen) : FromWordCall(word)

FromWordRecallShort == \E word \in TextsUpTo(MaxCallLen) : FromWordRecall(word)

NextCalls ==
    \/ FromWordCallShort
    \/ FromWordLoop
    \/ FromWordFor
    \/ FromWordAppend
    \/ FromWordReturn
    \/ FromWordRecallShort

SpecCalls == InitCalls /\ [][NextCalls]_vars

-----------------------------------------------------------------------------
(* Threads that deref LOOKUP_TREE at the same time.  The static is a         *)
(* once_cell::sync::Lazy: a deref of an uninitialized cell claims it and     *)
(* runs the initializer, a deref of a cell being initialized waits, a deref  *)
(* of an initialized cell returns the stored tree.  The initializer builds   *)
(* its tree in a local and the cell stores it when the closure returns.      *)

Threads == 1..NumThreads

\* a thread about to deref; root, g, k are the locals of the initializer
ThreadStart == [pc |-> "start", root |-> EmptyNode, g |-> 1, k |-> 1,
                waited |-> FALSE, seen |-> [init |-> FALSE, root |-> EmptyNode]]

\* what a deref does, by the state of the cell
ForceOutcomeNoWait(state) == IF state = "init" THEN "ready" ELSE "initialize"

ForceOutcome(state) ==
    CASE state = "uninit"  -> "initialize"
      [] state = "running" -> "wait"
      [] state = "init"    -> "ready"

InitLazy ==
    /\ table \in Tables
    /\ tree = [init |-> FALSE, root |-> EmptyNode]
    /\ cell = [state |-> "uninit", builds |-> 0, th |-> [t \in Threads |-> ThreadStart]]
    /\ this = NoThis
    /\ i = 0
    /\ buffer = <<>>
    /\ prev = RootData
    /\ submatches = NoIter
    /\ pc = "threads"
    /\ gen = <<>>
    /\ log = <<>>
    /\ yielded = <<>>
    /\ out = NoOut
    /\ calls = <<>>
    /\ scan = NoScan
    /\ rev = NoRev

\* thread t derefs LOOKUP_TREE
LazyDeref(t) ==
    /\ pc = "threads"
    /\ cell.th[t].pc \in {"start", "wait"}
    /\ LET outcome == ForceOutcome(cell.state)
       IN CASE outcome = "initialize" ->
                 cell' = [cell EXCEPT !.state = "running", !.builds = @ + 1,
                                      !.th[t].pc = "init"]
            [] outcome = "wait" ->
                 /\ cell.th[t].pc = "start"
                 /\ cell' = [cell EXCEPT !.th[t].pc = "wait", !.th[t].waited = TRUE]
            [] outcome = "ready" ->
                 cell' = [cell EXCEPT !.th[t].pc = "query"]
    /\ UNCHANGED <<table, tree, this, i, buffer, prev, submatches, pc, gen, log, yielded, out,
                   calls, scan, rev>>

\* one step of the initializer run by thread t: the next insert, the next
\* group, or the return of the closure, after which the cell holds the tree
LazyInitStep(t) ==
    /\ pc = "threads"
    /\ cell.th[t].pc = "init"
    /\ LET me == cell.th[t]
       IN IF me.g > Len(table)
          THEN /\ tree' = [init |-> TRUE, root |-> me.root]
               /\ cell' = [cell EXCEPT !.state = "init", !.th[t].pc = "query"]
          ELSE /\ tree' = tree
               /\ IF me.k > Len(table[me.g].rules)
                  THEN cell' = [cell EXCEPT !.th[t].g = @ + 1, !.th[t].k = 1]
                  ELSE LET rule == table[me.g].rules[me.k]
                       IN cell' = [cell EXCEPT
                              !.th[t].root = Insert(@, Reverse(rule.kana_in),
                                                 Info(table[me.g].reason, <<me.g, me.k>>,
                                                      Len(rule.kana_in), Len(rule.kana_out))),
                              !.th[t].k = @ + 1]
    /\ UNCHANGED <<table, this, i, buffer, prev, submatches, pc, gen, log, yielded, out,
                   calls, scan, rev>>

\* thread t queries the tree its deref returned
LazyQuery(t) ==
    /\ pc = "threads"
    /\ cell.th[t].pc = "query"
    /\ cell' = [cell EXCEPT !.th[t].pc = "done", !.th[t].seen = tree]
    /\ UNCHANGED <<table, tree, this, i, buffer, prev, submatches, pc, gen, log, yielded, out,
                   calls, scan, rev>>

LazyDerefAny == \E t \in Threads : LazyDeref(t)

LazyInitStepAny == \E t \in Threads : LazyInitStep(t)

LazyQueryAny == \E t \in Threads : LazyQuery(t)

NextLazy == LazyDerefAny \/ LazyInitStepAny \/ LazyQueryAny

SpecLazy == InitLazy /\ [][NextLazy]_vars

-----------------------------------------------------------------------------
(* A caller reading a forest from_word returned, through data, to_string    *)
(* and chars_rev on one handle.  The handle is any index: a Deinflection of *)
(* another forest can be handed to this one.                                *)

\* the call panicked: no value reaches the caller
Failed(op, d) == [op |-> op, d |-> d, text |-> <<>>, data |-> None, called |-> FALSE]

Choose(d) == ~rev.chosen \/ rev.d = d

\* ds.data(d)
ApiData(d) ==
    /\ pc = "done"
    /\ Choose(d)
    /\ LET x == Index(this.deinflections, d)
       IN IF x.some
          THEN /\ out' = [op |-> "data", d |-> d, text |-> <<>>, data |-> x, called |-> TRUE]
               /\ pc' = pc
          ELSE /\ out' = Failed("data", d)
               /\ pc' = "panic"
    /\ rev' = [rev EXCEPT !.chosen = TRUE, !.d = d]
    /\ UNCHANGED <<table, tree, this, i, buffer, prev, submatches, gen, log, yielded,
                   calls, scan, cell>>

\* ds.to_string(d): chars_rev(d) inside reads the candidate first
ApiToString(d) ==
    /\ pc = "done"
    /\ Choose(d)
    /\ LET x == Index(this.deinflections, d)
       IN IF x.some
          THEN /\ out' = [op |-> "to_string", d |-> d, text |-> ToStringOf(this, x.val),
                          data |-> None, called |-> TRUE]
               /\ pc' = pc
          ELSE /\ out' = Failed("to_string", d)
               /\ pc' = "panic"
    /\ rev' = [rev EXCEPT !.chosen = TRUE, !.d = d]
    /\ UNCHANGED <<table, tree, this, i, buffer, prev, submatches, gen, log, yielded,
                   calls, scan, cell>>

\* ds.chars_rev(d): the candidate is read when the iterator is created; an
\* iterator held before is dropped, and what it yielded is remembered if it
\* had come to its end.
ApiCharsRev(d) ==
    /\ pc = "done"
    /\ Choose(d)
    /\ LET x == Index(this.deinflections, d)
       IN IF x.some
          THEN /\ rev' = [chosen |-> TRUE, d |-> d, held |-> TRUE, st |-> CharsRevOf(x.val),
                          emitted |-> <<>>, ended |-> FALSE,
                          last |-> IF rev.held /\ rev.ended THEN Some(rev.emitted) ELSE rev.last]
               /\ UNCHANGED <<out, pc>>
          ELSE /\ rev' = [rev EXCEPT !.chosen = TRUE, !.d = d]
               /\ out' = Failed("chars_rev", d)
               /\ pc' = "panic"
    /\ UNCHANGED <<table, tree, this, i, buffer, prev, submatches, gen, log, yielded,
                   calls, scan, cell>>

\* one next() on the iterator held; the caller stops at the first None
ApiCharsRevNext ==
    /\ pc = "done"
    /\ rev.held
    /\ ~rev.ended
    /\ LET q == CharsRevNext(this, rev.st)
       IN rev' = [rev EXCEPT !.st = q.st,
                             !.emitted = IF q.item.some THEN Append(@, q.item.val) ELSE @,
                             !.ended = ~q.item.some]
    /\ UNCHANGED <<table, tree, this, i, buffer, prev, submatches, pc, gen, log, yielded, out,
                   calls, scan, cell>>

ApiDataAny == \E d \in 0..MaxForest : ApiData(d)

ApiToStringAny == \E d \in 0..MaxForest : ApiToString(d)

ApiCharsRevAny == \E d \in 0..MaxForest : ApiCharsRev(d)

NextApi ==
    \/ FromWordCallAny
    \/ FromWordLoop
    \/ FromWordFor
    \/ FromWordAppend
    \/ FromWordReturn
    \/ ApiDataAny
    \/ ApiToStringAny
    \/ ApiCharsRevAny
    \/ ApiCharsRevNext

SpecApi == InitCalls /\ [][NextApi]_vars

-----------------------------------------------------------------------------
(* from_word under tables whose every rule puts back less than it removes.  *)

NetTable ==
    << InflectionRules({"POLITE"},
          << r(<<2, 1>>, <<2>>, {"V1"}, {"V1", "V5"}) >>),
       InflectionRules({"PAST"},
          << r(<<2, 2>>, <<1>>, {"V5"}, {"V1"}),
             r(<<2>>,    <<>>,  {"V5"}, {"V1"}) >>) >>

NetTables == {PickGroups(NetTable, keep, 0) : keep \in SUBSET (1..3)}

InitNet ==
    /\ table \in NetTables
    /\ tree = [init |-> FALSE, root |-> EmptyNode]
    /\ this = NoThis
    /\ i = 0
    /\ buffer = <<>>
    /\ prev = RootData
    /\ submatches = NoIter
    /\ pc = "idle"
    /\ gen = <<>>
    /\ log = <<>>
    /\ yielded = <<>>
    /\ out = NoOut
    /\ calls = <<>>
    /\ scan = NoScan
    /\ rev = NoRev
    /\ cell = NoCell

SpecNet == InitNet /\ [][Next]_vars

\* The same rules and one more whose input suffix is not empty and whose
\* output suffix is longer.
TailTable ==
    NetTable \o << InflectionRules({"NEGATIVE"}, << r(<<1>>, <<2, 1>>, {"V1"}, {"V1"}) >>) >>

TailTables == {PickGroups(TailTable, keep, 0) : keep \in SUBSET (1..4)}

InitTail ==
    /\ table \in TailTables
    /\ tree = [init |-> FALSE, root |-> EmptyNode]
    /\ this = NoThis
    /\ i = 0
    /\ buffer = <<>>
    /\ prev = RootData
    /\ submatches = NoIter
    /\ pc = "idle"
    /\ gen = <<>>
    /\ log = <<>>
    /\ yielded = <<>>
    /\ out = NoOut
    /\ calls = <<>>
    /\ scan = NoScan
    /\ rev = NoRev
    /\ cell = NoCell

SpecTail == InitTail /\ [][Next]_vars

-----------------------------------------------------------------------------
(* Deinflections::from_str.  A &str is its characters; its byte length and   *)
(* the byte offsets of its character boundaries follow from the UTF-8 width  *)
(* of each character.                                                        *)

\* char::len_utf8 (1 below 0x80, 2 below 0x800, 3 below 0x10000, else 4), on
\* an alphabet whose characters 1, 2, 3, 4.. stand for the four width classes.
LenUtf8(c) == IF c < 2 THEN 1 ELSE IF c < 3 THEN 2 ELSE IF c < 4 THEN 3 ELSE 4

\* str::len: the length in bytes
RECURSIVE StrLen(_)
StrLen(s) == IF s = <<>> THEN 0 ELSE LenUtf8(Head(s)) + StrLen(Tail(s))

\* str::is_char_boundary
IsCharBoundary(s, b) == \E k \in 0..Len(s) : StrLen(SubSeq(s, 1, k)) = b

\* &s[..b] for a boundary b
StrSliceTo(s, b) == SubSeq(s, 1, CHOOSE k \in 0..Len(s) : StrLen(SubSeq(s, 1, k)) = b)

\* The closure of scan, called with the state i and the next character c of
\* s.chars().rev(): the byte offset `to` the slice ends at, and the new i.
ScanClosureAdvanceFirst(s, n, c) == [to |-> StrLen(s) - (n + LenUtf8(c)), i |-> n + LenUtf8(c)]

\* A closure that counts characters where the code counts bytes.
ScanClosureCountChars(s, n, c) == [to |-> StrLen(s) - n, i |-> n + 1]

ScanClosure(s, n, c) == [to |-> StrLen(s) - n, i |-> n + LenUtf8(c)]

\* Vec::push, as collect() extends the Vec
VecPushFront(v, x) == <<x>> \o v

VecPush(v, x) == Append(v, x)

InitStr ==
    /\ table \in SmallTables
    /\ tree = [init |-> FALSE, root |-> EmptyNode]
    /\ this = NoThis
    /\ i = 0
    /\ buffer = <<>>
    /\ prev = RootData
    /\ submatches = NoIter
    /\ pc = "idle"
    /\ gen = <<>>
    /\ log = <<>>
    /\ yielded = <<>>
    /\ out = NoOut
    /\ calls = <<>>
    /\ scan = NoScan
    /\ rev = NoRev
    /\ cell = NoCell

\* entry: the adaptor chain is built, nothing is consumed yet
FromStrCall(s) ==
    /\ pc = "idle"
    /\ scan' = [active |-> TRUE, s |-> s, i |-> 0, chars |-> SkipRev(s, 0), out |-> <<>>]
    /\ pc' = "scan"
    /\ UNCHANGED <<table, tree, this, i, buffer, prev, submatches, gen, log, yielded, out,
                   calls, rev, cell>>

\* collect() asks for the next element: the next character from the back,
\* the scan closure on it, and from_word entered on the slice; a slice end
\* below 0 or inside a character panics; with no character left collect()
\* returns the Vec.
FromStrNext ==
    /\ pc = "scan"
    /\ LET q == SkipRevNext(scan.chars)
           step == ScanClosure(scan.s, scan.i, q.item.val)
       IN IF q.item.some
          THEN IF step.to >= 0 /\ IsCharBoundary(scan.s, step.to)
               THEN /\ scan' = [scan EXCEPT !.chars = q.it, !.i = step.i]
                    /\ this' = [source |-> StrSliceTo(scan.s, step.to),
                                deinflections |-> <<RootData>>]
                    /\ i' = 0
                    /\ buffer' = <<>>
                    /\ gen' = <<NoRule>>
                    /\ pc' = "loop"
               ELSE /\ scan' = [scan EXCEPT !.chars = q.it]
                    /\ pc' = "panic"
                    /\ UNCHANGED <<this, i, buffer, gen>>
          ELSE /\ scan' = [scan EXCEPT !.chars = q.it]
               /\ pc' = "returned"
               /\ UNCHANGED <<this, i, buffer, gen>>
    /\ UNCHANGED <<table, tree, prev, submatches, log, yielded, out, calls, rev, cell>>

\* from_word has returned inside map: collect() pushes the value
FromStrPush ==
    /\ pc = "done"
    /\ scan.active
    /\ scan' = [scan EXCEPT !.out = VecPush(@, this)]
    /\ pc' = "scan"
    /\ UNCHANGED <<table, tree, this, i, buffer, prev, submatches, gen, log, yielded, out,
                   calls, rev, cell>>

\* One character of each UTF-8 width; 1 and 2 are the characters the rules
\* are written in.
Utf8Chars == 1..4

Utf8Texts(n) == UNION {[1..k -> Utf8Chars] : k \in 0..n}

FromStrCallAny == \E s \in Utf8Texts(MaxInputLen) : FromStrCall(s)

NextStr ==
    \/ FromStrCallAny
    \/ FromStrNext
    \/ FromWordLoop
    \/ FromWordFor
    \/ FromWordAppend
    \/ FromWordReturn
    \/ FromStrPush

SpecStr == InitStr /\ [][NextStr]_vars

-----------------------------------------------------------------------------
(* A process that uses the whole public interface: from_word several times,  *)
(* or from_str, and between calls of from_word the readers data, to_string,  *)
(* chars_rev and iter on the forest returned last.                           *)

\* ds.iter(): the handles 0 .. len - 1, in order
Iter(self) == [n \in 1..Len(self.deinflections) |-> n - 1]

\* ds.iter().collect()
ApiIter ==
    /\ pc = "done"
    /\ out.op # "iter"
    /\ out' = [op |-> "iter", d |-> 0, text |-> Iter(this), data |-> None, called |-> TRUE]
    /\ UNCHANGED <<table, tree, this, i, buffer, prev, submatches, pc, gen, log, yielded,
                   calls, scan, rev, cell>>

\* a further call of from_word; the caller has dropped the forest it held
\* and the readers on it
FromWordAgain(word) ==
    /\ pc = "done"
    /\ ~scan.active
    /\ Len(calls) < MaxCalls
    /\ this' = [source |-> word, deinflections |-> <<RootData>>]
    /\ i' = 0
    /\ buffer' = <<>>
    /\ gen' = <<NoRule>>
    /\ pc' = "loop"
    /\ out' = NoOut
    /\ rev' = NoRev
    /\ UNCHANGED <<table, tree, prev, submatches, log, yielded, calls, scan, cell>>

\* The words of this process: one that a rule of every table applies to,
\* one that a rule of two characters applies to, and one that rules of
\* some tables only apply to.
UseWords == {<<1>>, <<2, 1>>, <<2>>}

FromWordFirst == \E word \in UseWords : FromWordCall(word)

FromWordAgainAny == \E word \in UseWords : FromWordAgain(word)

FromStrCallShort == \E s \in TextsUpTo(MaxCallLen + 1) : FromStrCall(s)

NextUse ==
    \/ FromWordFirst
    \/ FromStrCallShort
    \/ FromStrNext
    \/ FromWordLoop
    \/ FromWordFor
    \/ FromWordAppend
    \/ FromWordReturn
    \/ FromStrPush
    \/ FromWordAgainAny
    \/ ~scan.active /\ ApiDataAny
    \/ ~scan.active /\ ApiToStringAny
    \/ ~scan.active /\ ApiCharsRevAny
    \/ ~scan.active /\ ApiCharsRevNext
    \/ ~scan.active /\ ApiIter

SpecUse == InitCalls /\ [][NextUse]_vars

-----------------------------------------------------------------------------
(* The recursive reference text of a candidate. *)

RECURSIVE T(_, _)
T(self, c) ==
    LET data == At(self.deinflections, c)
    IN IF data.source.tag = "Original"
       THEN DropLast(self.source, data.replace_from_back) \o data.replace_with
       ELSE DropLast(T(self, data.source.i), data.replace_from_back) \o data.replace_with

Handles(self) == 0..(Len(self.deinflections) - 1)

\* C1: in every forest whose parent indices are smaller than the child's,
\* to_string(c), the reverse of chars_rev(c), is the reference text T(c) of
\* every candidate c; the text a to_string call returned is that text.
\* (A to_string call leaves the forest as it is, so the candidates of the
\* forest it read were compared in the state before the call.)
C1_ReconstructionMatchesReference ==
    IF out.called
    THEN out.text = T(this, out.d)
    ELSE \A c \in Handles(this) : to_string(this, c) = T(this, c)

\* A three-layer chain whose top layer removes more than its parent holds,
\* so the carry crosses a whole layer, rendered by to_string.
C1_Witness ==
    /\ out.called
    /\ out.d = 2
    /\ Len(this.deinflections) = 3
    /\ At(this.deinflections, 2).source = Deinflection(1)
    /\ At(this.deinflections, 1).source = Deinflection(0)
    /\ At(this.deinflections, 0).source = Original
    /\ At(this.deinflections, 2).replace_from_back = 2
    /\ At(this.deinflections, 1).replace_with_chars = 1
    /\ At(this.deinflections, 1).replace_from_back = 1
    /\ At(this.deinflections, 0).replace_with_chars = 2
    /\ At(this.deinflections, 0).replace_from_back = 0
    /\ this.source = <<1>>
    /\ out.text = <<1>> \o At(this.deinflections, 2).replace_with

-----------------------------------------------------------------------------
(* Claims about get_submatches on hand-built trees. *)

Count(seq, x) == Cardinality({n \in 1..Len(seq) : seq[n] = x})

KeyOf(info) == (CHOOSE e \in {log[n] : n \in 1..Len(log)} : e.info = info).key

\* C8: a rule inserted under key k is yielded exactly once when k is a
\* prefix of the character source (never twice, never when k is not a
\* prefix), and once the walk has ended every such rule has been yielded.
C8_QueryYieldsExactlyMatches ==
    pc \in {"walk", "end"} =>
        \A n \in 1..Len(log) :
            LET e == log[n]
                matching == IsPrefix(e.key, submatches.chars.s)
            IN /\ Count(yielded, e.info) <= 1
               /\ Count(yielded, e.info) = 1 => matching
               /\ (pc = "end" /\ matching) => Count(yielded, e.info) = 1

\* A finished walk over a source of several characters that yielded the
\* rule under its first character and passed over a rule under another one.
C8_Witness ==
    /\ pc = "end"
    /\ Len(log) = 2
    /\ Len(yielded) = 1
    /\ Len(submatches.chars.s) >= 2
    /\ KeyOf(yielded[1]) = <<submatches.chars.s[1]>>
    /\ \E n \in 1..2 : Len(log[n].key) = 1 /\ Count(yielded, log[n].info) = 0

\* C9: rules come out shorter suffix first, and rules of equal suffix
\* length in the order they were inserted.
C9_QueryOrder ==
    pc \in {"walk", "end"} =>
        \A a, b \in 1..Len(yielded) :
            a < b =>
                /\ Len(KeyOf(yielded[a])) <= Len(KeyOf(yielded[b]))
                /\ Len(KeyOf(yielded[a])) = Len(KeyOf(yielded[b])) => yielded[a] < yielded[b]

\* Two rules under the same key came out in insertion order.
C9_Witness ==
    /\ pc = "end"
    /\ Len(log) = 2
    /\ log[1].key = log[2].key
    /\ Len(log[1].key) = 1
    /\ yielded = <<1, 2>>

\* All matches of the nodes above the current one, then the first
\* matches_pos of the current node: what a walk standing at path has yielded.
RECURSIVE MatchesAlong(_, _)
MatchesAlong(node, path) ==
    IF path = <<>> THEN <<>>
    ELSE node.matches \o MatchesAlong(At(node.children, Head(path)), Tail(path))

\* C10: the walk takes a character only when every rule of the node it
\* stands on has been yielded, has taken at most depth + 1 characters, and
\* has ended exactly when the source is exhausted or the character just
\* taken has no child; every call yields a rule or ends the walk.
C10_Safety ==
    pc \in {"walk", "end"} =>
        LET depth == Len(submatches.path)
            node == NodeAt(tree.root, submatches.path)
            s == submatches.chars.s
        IN /\ submatches.chars.pos = submatches.taken
           /\ submatches.taken <= depth + 1
           /\ yielded = MatchesAlong(tree.root, submatches.path)
                          \o SubSeq(node.matches, 1, submatches.matches_pos)
           /\ pc = "walk" => submatches.taken = depth
           /\ pc = "end" =>
                /\ submatches.matches_pos = Len(node.matches)
                /\ \/ submatches.taken = Len(s) /\ depth = Len(s)
                   \/ /\ submatches.taken = depth + 1
                      /\ \A n \in 1..Len(node.children) :
                            node.children[n].c # s[submatches.taken]

\* Every call of next made on a running walk either yields one more rule
\* or ends the walk, so a walk over n inserted rules ends within n + 1 calls.
C10_Step ==
    pc = "walk" =>
        \/ pc' = "walk" /\ Len(yielded') = Len(yielded) + 1 /\ Len(yielded') <= Len(log)
        \/ pc' = "end" /\ yielded' = yielded

C10_QueryTerminatesLazily == []C10_Safety /\ [][C10_Step]_vars

\* A walk that ended on a missing child with part of a source longer than
\* every key still unread.
C10_Witness ==
    /\ pc = "end"
    /\ Len(submatches.chars.s) = MaxSourceLen
    /\ submatches.taken = 2
    /\ Len(submatches.path) = 1
    /\ Len(yielded) = 1

-----------------------------------------------------------------------------
(* Claims about the forest from_word builds. *)

\* The candidates found so far: the list, then the buffer still to be
\* appended; gen runs parallel to it.
Found == this.deinflections \o buffer

Running == pc \in {"loop", "for", "append", "done"}

Applies(c, ref) ==
    LET rule == RuleAt(table, ref)
        data == At(this.deinflections, c)
    IN /\ IsSuffix(rule.kana_in, to_string(this, c))
       /\ (data.rules = {} \/ data.rules \cap rule.rules_in # {})

ChildrenBy(c, ref) ==
    {j \in Handles(this) : At(this.deinflections, j).source = Deinflection(c) /\ At(gen, j) = ref}

\* C2: when from_word has returned, every candidate c has exactly one child
\* from each table entry whose input suffix ends c's text and whose input
\* classes are compatible with c's, with origin c, removed_len and
\* replacement taken from the entry, and no child from any other entry.
C2_ExpansionExact ==
    pc = "done" =>
        \A c \in Handles(this) : \A ref \in RuleRefs(table) :
            LET rule == RuleAt(table, ref)
                kids == ChildrenBy(c, ref)
            IN IF Applies(c, ref)
               THEN /\ Cardinality(kids) = 1
                    /\ \A j \in kids :
                         LET d == At(this.deinflections, j)
                         IN /\ d.source = Deinflection(c)
                            /\ d.replace_from_back = Len(rule.kana_in)
                            /\ d.replace_with = rule.kana_out
                            /\ d.replace_with_chars = Len(rule.kana_out)
               ELSE kids = {}

\* A returned forest in which a non-root candidate has a child, the root
\* has two children from entries of equal text, and some entry whose suffix
\* matches a candidate was refused by the class gate.
C2_Witness ==
    /\ pc = "done"
    /\ \E j \in Handles(this) :
          /\ At(this.deinflections, j).source.tag = "Deinflection"
          /\ At(this.deinflections, j).source.i > 0
    /\ \E a, b \in RuleRefs(table) :
          /\ a # b
          /\ RuleAt(table, a) = RuleAt(table, b)
          /\ ChildrenBy(0, a) # {} /\ ChildrenBy(0, b) # {}
    /\ \E c \in Handles(this) : \E ref \in RuleRefs(table) :
          /\ IsSuffix(RuleAt(table, ref).kana_in, to_string(this, c))
          /\ ~Applies(c, ref)

\* C3: every candidate found, in the list or still in the buffer, comes
\* from a rule whose input classes meet its parent's classes or from a
\* parent without classes; a rule disjoint from a non-empty parent class
\* mask has no child under that parent.
C3_ClassGate ==
    Running =>
        /\ \A j \in 1..(Len(Found) - 1) :
              LET d == At(Found, j)
                  p == At(Found, d.source.i)
                  rule == RuleAt(table, At(gen, j))
              IN /\ d.source.tag = "Deinflection"
                 /\ p.rules = {} \/ p.rules \cap rule.rules_in # {}
        /\ \A c \in Handles(this) : \A ref \in RuleRefs(table) :
              (At(this.deinflections, c).rules # {}
                 /\ At(this.deinflections, c).rules \cap RuleAt(table, ref).rules_in = {})
              => ChildrenBy(c, ref) = {}

\* A returned forest where a candidate with classes has a child through an
\* intersecting rule, and another rule, with no input class at all, matched
\* the text of a candidate with classes and was refused.
C3_Witness ==
    /\ pc = "done"
    /\ \E j \in 1..(Len(Found) - 1) :
          At(Found, At(Found, j).source.i).rules # {}
    /\ \E c \in Handles(this) : \E ref \in RuleRefs(table) :
          /\ At(this.deinflections, c).rules # {}
          /\ RuleAt(table, ref).rules_in = {}
          /\ IsSuffix(RuleAt(table, ref).kana_in, to_string(this, c))
          /\ ChildrenBy(c, ref) = {}

\* The union of the reasons of the rules on the path from the root to j.
RECURSIVE ChainReasons(_)
ChainReasons(j) ==
    IF j = 0 THEN {}
    ELSE ReasonAt(table, At(gen, j)) \cup ChainReasons(At(Found, j).source.i)

\* C4: a candidate's reasons are its parent's reasons united with the
\* reason of its rule; they contain the parent's reasons and equal the
\* union of the reasons of the rules on its path from the root.
C4_ReasonsAccumulate ==
    Running =>
        \A j \in 1..(Len(Found) - 1) :
            LET d == At(Found, j)
                p == At(Found, d.source.i)
            IN /\ d.reasons = p.reasons \cup ReasonAt(table, At(gen, j))
               /\ p.reasons \subseteq d.reasons
               /\ d.reasons = ChainReasons(j)

\* A candidate two rules away from the root carrying both reasons.
C4_Witness ==
    /\ pc = "done"
    /\ \E j \in 1..(Len(Found) - 1) :
          LET d == At(Found, j)
              p == At(Found, d.source.i)
          IN /\ p.source.tag = "Deinflection"
             /\ Cardinality(p.reasons) = 1
             /\ Cardinality(d.reasons) = 2

\* C5: a candidate's classes are the output classes of its rule, whatever
\* the classes of its parent.
C5_ClassMaskFromRule ==
    Running =>
        \A j \in 1..(Len(Found) - 1) :
            At(Found, j).rules = RuleAt(table, At(gen, j)).rules_out

\* A candidate whose parent has classes that it does not carry.
C5_Witness ==
    /\ pc = "done"
    /\ \E j \in 1..(Len(Found) - 1) :
          LET d == At(Found, j)
              p == At(Found, d.source.i)
          IN p.rules # {} /\ d.rules # {} /\ p.rules \cap d.rules = {}

\* C6: the forest from_word returns for w holds exactly one candidate with
\* no reason whose text is w.
C6_OneIdentityCandidate ==
    pc = "done" =>
        Cardinality({c \in Handles(this) :
            At(this.deinflections, c).reasons = {} /\ to_string(this, c) = this.source}) = 1

\* A returned forest with a second candidate that reads as the word itself
\* (it carries a reason).
C6_Witness ==
    /\ pc = "done"
    /\ this.source # <<>>
    /\ \E c \in Handles(this) :
          c > 0 /\ to_string(this, c) = this.source /\ At(this.deinflections, c).reasons # {}

\* C7: from the entry of from_word to its return, index 0 holds the root:
\* origin Original, nothing removed, empty replacement, no class, no
\* reason, and its text is the input word.
C7_RootAtIndexZero ==
    Running =>
        /\ Len(this.deinflections) >= 1
        /\ At(this.deinflections, 0) = DeinflectionData(Original, 0, <<>>, 0, {}, {})
        /\ to_string(this, 0) = this.source

\* The loop at work on a later candidate of a forest that has grown.
C7_Witness ==
    /\ pc = "for"
    /\ i >= 2
    /\ Len(this.deinflections) >= 4
    /\ Len(this.source) = MaxInputLen

-----------------------------------------------------------------------------
(* from_word: boundaries and shape of the list *)

NoRuleMatches(tbl, w) == \A ref \in RuleRefs(tbl) : ~IsSuffix(RuleAt(tbl, ref).kana_in, w)

\* C12: when no rule's input suffix is a suffix of the word, from_word finds
\* no candidate: the list is the root alone from entry to return, the loop
\* body runs once, and the value returned is the forest of size 1.
C12_NoMatchRootOnly ==
    (Running /\ NoRuleMatches(table, this.source)) =>
        /\ this.deinflections = <<RootData>>
        /\ buffer = <<>>
        /\ i <= 1
        /\ pc = "done" => calls = <<[source |-> this.source, deinflections |-> <<RootData>>]>>

\* A returned forest of size 1 for a word of two characters or more, under
\* a table with a rule whose suffix ends like the word but does not match
\* it, so that the query went down the trie and came back empty.
C12_Witness ==
    /\ pc = "done"
    /\ Len(this.source) >= 2
    /\ NoRuleMatches(table, this.source)
    /\ Len(this.deinflections) = 1
    /\ \E ref \in RuleRefs(table) :
          LET kana_in == RuleAt(table, ref).kana_in
          IN Len(kana_in) = 2 /\ kana_in[2] = this.source[Len(this.source)]

\* C20: during a call the list only grows at its end: every step leaves
\* the candidates already in the list at their index, with their fields.
C20_AppendOnly ==
    [][(pc # "idle") => IsPrefix(this.deinflections, this'.deinflections)]_vars

\* A returned forest that grew in two rounds of the loop: a child of the
\* root, then a child of a later candidate.
C20_Witness ==
    /\ pc = "done"
    /\ Len(this.deinflections) >= 3
    /\ At(this.deinflections, 1).source = Deinflection(0)
    /\ At(this.deinflections, Len(this.deinflections) - 1).source.i >= 1

-----------------------------------------------------------------------------
(* chars_rev: removing more than a layer holds *)

\* The text a candidate's removal applies to: the word for a child of the
\* original, the reference text of its parent otherwise.
Below(self, c) ==
    LET data == At(self.deinflections, c)
    IN IF data.source.tag = "Original" THEN self.source ELSE T(self, data.source.i)

\* C16: a removal larger than what a layer holds removes that layer whole
\* and carries the excess to the layer below; a removal larger than the
\* whole text below leaves the replacement alone (removing 2 of a word of 1
\* character and putting R gives R).  Lengths stay natural numbers.
C16_OverTrimClamps ==
    out.called =>
        LET d == At(this.deinflections, out.d)
            below == Below(this, out.d)
        IN /\ d.replace_from_back >= Len(below) => out.text = d.replace_with
           /\ Len(out.text) = Len(DropLast(below, d.replace_from_back)) + d.replace_with_chars
           /\ d.source.tag = "Deinflection" =>
                 LET p == At(this.deinflections, d.source.i)
                 IN d.replace_from_back >= p.replace_with_chars =>
                      out.text = DropLast(DropLast(Below(this, d.source.i), p.replace_from_back),
                                          d.replace_from_back - p.replace_with_chars)
                                 \o d.replace_with

\* to_string of a candidate that removes 2 characters from a parent holding
\* 1, the parent itself removing the only character of the word plus the
\* carried one: the text is the candidate's replacement alone.
C16_Witness ==
    /\ out.called
    /\ out.d = 1
    /\ this.source = <<1>>
    /\ At(this.deinflections, 1).source = Deinflection(0)
    /\ At(this.deinflections, 1).replace_from_back = 2
    /\ At(this.deinflections, 1).replace_with = <<8, 9>>
    /\ At(this.deinflections, 0).source = Original
    /\ At(this.deinflections, 0).replace_with_chars = 1
    /\ At(this.deinflections, 0).replace_from_back = 1
    /\ out.text = <<8, 9>>

-----------------------------------------------------------------------------
(* Repeated calls *)

\* C11: two calls of from_word on the same word return equal forests (same
\* candidates, same order, same fields), whatever words were deinflected
\* before or between them.
C11_Deterministic ==
    \A a, b \in 1..Len(calls) :
        calls[a].source = calls[b].source => calls[a] = calls[b]

\* Three calls have returned: the first and the third on one word, with a
\* forest of three candidates or more, the second on another word that has
\* candidates too.
C11_Witness ==
    /\ Len(calls) = 3
    /\ calls[1].source = calls[3].source
    /\ calls[2].source # calls[1].source
    /\ Len(calls[1].deinflections) >= 3
    /\ Len(calls[2].deinflections) >= 2

-----------------------------------------------------------------------------
(* from_str *)

\* C13: element k of the Vec from_str collects is the value from_word
\* returned for s without its last k characters: element 0 is the forest of
\* the whole string and every further element drops one more character.
C13_ElementOrder ==
    scan.active =>
        \A k \in 0..(Len(scan.out) - 1) :
            /\ At(scan.out, k).source = DropLast(scan.s, k)
            /\ At(scan.out, k) = At(calls, k)

\* from_str has returned for a string of three characters of different
\* byte widths, and the forest of the whole string has candidates.
C13_Witness ==
    /\ pc = "returned"
    /\ Len(scan.s) = 3
    /\ Len(scan.out) = 3
    /\ LenUtf8(scan.s[1]) # LenUtf8(scan.s[3])
    /\ Len(At(scan.out, 0).deinflections) >= 3

\* The statement that from_str returns n + 1 forests for a string of n
\* characters, the last one built from the empty prefix.
C14_RangeUpToFullLength ==
    pc = "returned" =>
        /\ Len(scan.out) = Len(scan.s) + 1
        /\ At(scan.out, Len(scan.out) - 1).source = <<>>

\* C14: for a string of n characters from_str returns n forests, one for
\* every number k of dropped trailing characters from 0 to n - 1: the last
\* forest is built from the first character alone, no forest is built from
\* the empty prefix, and the empty string gives the empty Vec.
C14_RangeBelowFullLength ==
    /\ scan.active => \A k \in 0..(Len(scan.out) - 1) : At(scan.out, k).source # <<>>
    /\ pc = "returned" =>
          /\ Len(scan.out) = Len(scan.s)
          /\ \A k \in 0..(Len(scan.s) - 1) :
                At(scan.out, k).source = SubSeq(scan.s, 1, Len(scan.s) - k)
          /\ scan.s # <<>> => At(scan.out, Len(scan.out) - 1).source = <<scan.s[1]>>

\* from_str has returned three forests for a string of three characters,
\* the last one built from its first character.
C14_Witness ==
    /\ pc = "returned"
    /\ Len(scan.s) = 3
    /\ Len(calls) = 3
    /\ At(scan.out, 2).source = <<scan.s[1]>>
    /\ Len(At(scan.out, 2).deinflections) >= 2

-----------------------------------------------------------------------------
(* Termination *)

NetConsuming(tbl) ==
    \A ref \in RuleRefs(tbl) : Len(RuleAt(tbl, ref).kana_out) < Len(RuleAt(tbl, ref).kana_in)

\* The number of rules on the path from the root to candidate j of list.
RECURSIVE DepthOf(_, _)
DepthOf(list, j) ==
    IF At(list, j).source.tag = "Original" THEN 0
    ELSE 1 + DepthOf(list, At(list, j).source.i)

\* The weight of a candidate whose text has n characters under a table of nr
\* rules: more than the weight of nr children of n - 1 characters plus the
\* steps one round of the loop takes.
RECURSIVE Weight(_, _)
Weight(n, nr) == IF n < 0 THEN 0 ELSE nr * Weight(n - 1, nr) + nr + 3

\* The summed weight of the candidates lo..hi of the list and the buffer.
RECURSIVE SumWeight(_, _)
SumWeight(lo, hi) ==
    IF lo > hi THEN 0
    ELSE Weight(Len(T([source |-> this.source, deinflections |-> Found], lo)),
                Cardinality(RuleRefs(table)))
         + SumWeight(lo + 1, hi)

\* The work a running call has left: the candidates not yet processed, and
\* for the candidate in the for loop what its remaining rules can add.
Rank ==
    LET nr == Cardinality(RuleRefs(table))
        last == Len(Found) - 1
    IN CASE pc = "loop"   -> 1 + SumWeight(i, last)
         [] pc = "for"    -> 1 + SumWeight(i + 1, last)
                               + (nr - Len(yielded)) * (Weight(Len(T(this, i)) - 1, nr) + 1) + 2
         [] pc = "append" -> 1 + SumWeight(i + 1, last) + 1
         [] OTHER         -> 0

\* C15: under a table whose every rule has an output shorter than its
\* input, every candidate found is at most as many rules away from the
\* root as the word has characters, and every call of from_word returns:
\* each step of the loop lowers a measure that is a natural number, and the
\* list never outgrows the size up to which a call is followed.
C15_NetConsumingTerminates ==
    /\ [](NetConsuming(table) =>
            /\ \A j \in 0..(Len(Found) - 1) : DepthOf(Found, j) <= Len(this.source)
            /\ Rank >= 0
            /\ Len(Found) <= MaxForest)
    /\ [][(NetConsuming(table) /\ pc \in {"loop", "for", "append"}) => Rank' < Rank]_vars

\* A returned forest under a net-consuming table with a candidate as deep
\* as the word is long, three rules from the root, whose text is empty.
C15_Witness ==
    /\ pc = "done"
    /\ NetConsuming(table)
    /\ Len(this.source) = 3
    /\ \E j \in Handles(this) :
          DepthOf(this.deinflections, j) = 3 /\ to_string(this, j) = <<>>

-----------------------------------------------------------------------------
(* Reading a forest *)

\* C18: data, to_string and chars_rev on a handle whose index is not below
\* the size of the forest panic and hand nothing to the caller: a value
\* returned or an iterator held always belongs to an index inside the list.
C18_InvalidHandlePanics ==
    /\ (out.op # "none" /\ out.d >= Len(this.deinflections)) => (pc = "panic" /\ ~out.called)
    /\ out.called => out.d < Len(this.deinflections)
    /\ rev.held => rev.d < Len(this.deinflections)
    /\ pc = "panic" => (~out.called /\ out.d >= Len(this.deinflections))
    /\ (out.called /\ out.op = "data") => out.data = Some(At(this.deinflections, out.d))

\* chars_rev was called with the index equal to the size of a forest of
\* three candidates or more, and panicked.
C18_Witness ==
    /\ pc = "panic"
    /\ out.op = "chars_rev"
    /\ Len(this.deinflections) >= 3
    /\ out.d = Len(this.deinflections)

\* C19: the text to_string returns for a handle is the sequence chars_rev
\* yields for it read backwards; a second chars_rev on the handle yields
\* what the first one yielded; and no call on the returned forest changes
\* it.
C19_MirrorImages ==
    /\ []((rev.held /\ rev.ended /\ out.called /\ out.op = "to_string" /\ out.d = rev.d) =>
            /\ Len(out.text) = Len(rev.emitted)
            /\ \A k \in 1..Len(out.text) : out.text[k] = rev.emitted[Len(out.text) - k + 1])
    /\ []((rev.held /\ rev.ended /\ rev.last.some) => rev.emitted = rev.last.val)
    /\ [][(pc = "done") => (this' = this)]_vars

\* to_string and two complete chars_rev iterations on a candidate two rules
\* from the root whose text has two characters or more.
C19_Witness ==
    /\ pc = "done"
    /\ rev.held /\ rev.ended /\ rev.last.some
    /\ out.called /\ out.op = "to_string" /\ out.d = rev.d
    /\ Len(rev.emitted) >= 2
    /\ rev.emitted[1] # rev.emitted[2]
    /\ At(this.deinflections, rev.d).source.tag = "Deinflection"
    /\ At(this.deinflections, rev.d).source.i >= 1

-----------------------------------------------------------------------------
(* Concurrent first use *)

\* C17: whatever the interleaving of the threads' first derefs, the
\* initializer of LOOKUP_TREE is started at most once, at most one thread
\* runs it, and every query sees the stored tree holding every rule of the
\* table, never a tree under construction.
C17_BuiltOnceSeenWhole ==
    pc = "threads" =>
        /\ cell.builds <= 1
        /\ Cardinality({t \in Threads : cell.th[t].pc = "init"}) <= 1
        /\ \A t \in Threads :
              cell.th[t].pc \in {"query", "done"} =>
                  tree = [init |-> TRUE, root |-> InsertGroups(EmptyNode, table, 1)]
        /\ \A t \in Threads :
              cell.th[t].pc = "done" =>
                  cell.th[t].seen = [init |-> TRUE, root |-> InsertGroups(EmptyNode, table, 1)]

\* Every thread has queried, under a table of three rules or more, and a
\* thread that found the cell being initialized had to wait.
C17_Witness ==
    /\ pc = "threads"
    /\ \A t \in Threads : cell.th[t].pc = "done"
    /\ \E t \in Threads : cell.th[t].waited
    /\ cell.builds = 1
    /\ Cardinality(RuleRefs(table)) >= 3

-----------------------------------------------------------------------------
(* from_word: order of the work *)

\* table order of two rule references
RefLess(a, b) == a[1] < b[1] \/ (a[1] = b[1] /\ a[2] < b[2])

\* the position of a rule reference among the items the query has yielded
YieldPos(ref) == CHOOSE n \in 1..Len(yielded) : yielded[n].rule = ref

\* C21: while the rules of candidate i are queried the list does not
\* change; its children wait in the buffer and are appended in one step
\* after the query has ended.  In the list the children of one parent are
\* next to each other, parents in index order, and siblings are in the
\* order the query yielded their rules: shorter input suffix first, table
\* order among equal suffixes.
C21_SiblingBatching ==
    /\ [](Running =>
            /\ \A j \in 1..(Len(Found) - 1) :
                  /\ At(Found, j).replace_with = RuleAt(table, At(gen, j)).kana_out
                  /\ At(Found, j).replace_from_back = Len(RuleAt(table, At(gen, j)).kana_in)
            /\ \A j, k \in 1..(Len(Found) - 1) :
                  j < k =>
                    /\ At(Found, j).source.i <= At(Found, k).source.i
                    /\ At(Found, j).source = At(Found, k).source =>
                          \/ At(Found, j).replace_from_back < At(Found, k).replace_from_back
                          \/ /\ At(Found, j).replace_from_back = At(Found, k).replace_from_back
                             /\ RefLess(At(gen, j), At(gen, k))
            /\ pc \in {"for", "append"} =>
                  \A b \in 1..Len(buffer) :
                      /\ buffer[b].source = Deinflection(i)
                      /\ \E n \in 1..Len(yielded) :
                            yielded[n].rule = At(gen, Len(this.deinflections) + b - 1)
                      /\ \A a \in 1..(b - 1) :
                            YieldPos(At(gen, Len(this.deinflections) + a - 1))
                              < YieldPos(At(gen, Len(this.deinflections) + b - 1)))
    /\ [][(pc = "for") => (this' = this)]_vars
    /\ [][(pc = "append") =>
            (this'.deinflections = this.deinflections \o buffer /\ buffer' = <<>>)]_vars

\* The loop has appended, in one step, two children of a candidate other
\* than the root: one from the rule with the empty input suffix, then one
\* from a rule with a suffix of one character.
C21_Witness ==
    /\ pc = "loop"
    /\ \E j \in Handles(this) :
          /\ j + 1 \in Handles(this)
          /\ At(this.deinflections, j).source.i >= 1
          /\ At(this.deinflections, j).source = At(this.deinflections, j + 1).source
          /\ At(this.deinflections, j).replace_from_back = 0
          /\ At(this.deinflections, j + 1).replace_from_back = 1

\* C22: a call takes the candidates in index order from index 0, one per
\* round of the loop, each round on the next index, and returns exactly
\* when the index has reached the length of the list, so that every
\* candidate ever appended has been processed once.
C22_WorklistOrder ==
    /\ [](Running =>
            /\ i <= Len(this.deinflections)
            /\ pc \in {"for", "append"} =>
                  (i < Len(this.deinflections) /\ prev = At(this.deinflections, i))
            /\ pc = "done" => i = Len(this.deinflections))
    /\ [][(pc = "idle") => (i' = 0 /\ pc' = "loop")]_vars
    /\ [][(pc = "loop" /\ i < Len(this.deinflections)) => (pc' = "for" /\ i' = i)]_vars
    /\ [][(pc = "loop" /\ i >= Len(this.deinflections)) => (pc' = "done" /\ i' = i)]_vars
    /\ [][(pc = "for") => (i' = i /\ pc' \in {"for", "append"})]_vars
    /\ [][(pc = "append") => (i' = i + 1 /\ pc' = "loop")]_vars

\* A call has returned a forest of four candidates or more after as many
\* rounds, the last of them on a candidate appended during the call.
C22_Witness ==
    /\ pc = "done"
    /\ i = Len(this.deinflections)
    /\ i >= 4
    /\ At(this.deinflections, i - 1).source.i >= 1

-----------------------------------------------------------------------------
(* from_word: shape and texts of the forest *)

\* C28: in every state of a call, index 0 is the only candidate whose
\* source is the original word, and every other candidate, in the list or
\* in the buffer, has as source an index that is smaller than its own and
\* already in the list; following the sources from any candidate reaches
\* index 0.
C28_ForestShape ==
    Running =>
        /\ Len(Found) >= 1
        /\ At(Found, 0).source = Original
        /\ \A j \in 1..(Len(Found) - 1) :
              /\ At(Found, j).source.tag = "Deinflection"
              /\ At(Found, j).source.i >= 0
              /\ At(Found, j).source.i < j
              /\ At(Found, j).source.i < Len(this.deinflections)
              /\ At(Found, j).source.i <= i
              /\ DepthOf(Found, j) <= j

\* The loop holds children in the buffer whose parent is itself the child
\* of a child of the root.
C28_Witness ==
    /\ pc = "append"
    /\ buffer # <<>>
    /\ i >= 2
    /\ DepthOf(Found, Len(Found) - 1) = 3

\* The text chars_rev reads for candidate j of the list and the buffer.
TextOf(j) == to_string([source |-> this.source, deinflections |-> Found], j)

\* C27: for every candidate found from rule r under parent p, the text of
\* p ends with the input suffix of r, the candidate removes no more than p's
\* text holds, and its text is p's text with that suffix replaced by the
\* output suffix of r.
C27_TextRelation ==
    Running =>
        \A j \in 1..(Len(Found) - 1) :
            LET d == At(Found, j)
                rule == RuleAt(table, At(gen, j))
                parent == TextOf(d.source.i)
            IN /\ IsSuffix(rule.kana_in, parent)
               /\ d.replace_from_back <= Len(parent)
               /\ d.replace_from_back = Len(rule.kana_in)
               /\ TextOf(j) = SubSeq(parent, 1, Len(parent) - Len(rule.kana_in)) \o rule.kana_out

\* A returned forest with a candidate two rules from the root whose rule
\* removed a character its parent's rule had put, and whose text has two
\* characters or more.
C27_Witness ==
    /\ pc = "done"
    /\ \E j \in 1..(Len(Found) - 1) :
          LET d == At(Found, j)
          IN /\ d.source.i >= 1
             /\ d.replace_from_back >= 1
             /\ At(Found, d.source.i).replace_with_chars >= 1
             /\ Len(TextOf(j)) >= 2
             /\ TextOf(j) # TextOf(d.source.i)

-----------------------------------------------------------------------------
(* Termination and the input suffix *)

NonEmptyInputs(tbl) == \A ref \in RuleRefs(tbl) : RuleAt(tbl, ref).kana_in # <<>>

\* The statement that a non-empty input suffix in every rule bounds the
\* depth of every candidate by the length of the word.
C25_NonEmptyInputBoundsDepth ==
    NonEmptyInputs(table) =>
        \A j \in 0..(Len(Found) - 1) : DepthOf(Found, j) <= Len(this.source)

\* C25: a non-empty input suffix is not enough; when every rule's output
\* suffix is shorter than its input suffix, the depth of a candidate plus
\* the length of its text is at most the length of the word, a child is
\* shorter than its parent, and every step of the loop lowers a measure
\* that is a natural number, so the call returns.
C25_ShrinkingRulesTerminate ==
    /\ [](NetConsuming(table) =>
            /\ NonEmptyInputs(table)
            /\ \A j \in 0..(Len(Found) - 1) :
                  /\ DepthOf(Found, j) + Len(TextOf(j)) <= Len(this.source)
                  /\ j > 0 => Len(TextOf(j)) < Len(TextOf(At(Found, j).source.i))
            /\ Rank >= 0
            /\ Len(Found) <= MaxForest)
    /\ [][(NetConsuming(table) /\ pc \in {"loop", "for", "append"}) => Rank' < Rank]_vars

\* A call has returned, under a table of three shrinking rules, a forest
\* with a candidate three rules from the root for a word of three
\* characters.
C25_Witness ==
    /\ pc = "done"
    /\ NetConsuming(table)
    /\ Cardinality(RuleRefs(table)) = 3
    /\ Len(this.source) = 3
    /\ \E j \in Handles(this) : DepthOf(this.deinflections, j) = 3

-----------------------------------------------------------------------------
(* The order of the children of a node *)

RECURSIVE NodesOf(_)
NodesOf(node) ==
    {node} \cup UNION {NodesOf(node.children[k]) : k \in 1..Len(node.children)}

\* The rules stored under a key, found by looking at every child in turn.
RECURSIVE LookupByScan(_, _)
LookupByScan(node, key) ==
    IF key = <<>>
    THEN node.matches
    ELSE LET hits == {k \in 1..Len(node.children) : node.children[k].c = Head(key)}
         IN IF hits = {} THEN <<>>
            ELSE LookupByScan(node.children[CHOOSE k \in hits : TRUE], Tail(key))

\* The values inserted under a key so far, in the order of the inserts.
InsertedUnder(key) ==
    LET Under(e) == e.key = key
        es == SelectSeq(log, Under)
    IN [n \in 1..Len(es) |-> es[n].info]

\* C30: in every node the children's keys increase strictly, so no key
\* occurs twice; the binary search answers Ok(k) exactly when a child with
\* the key exists, with k its position, and otherwise Err of the position
\* that keeps the order; the rules stored under a key are the rules
\* inserted under it, in insertion order, and an insert leaves the rules
\* already stored where they were and adds one rule at the end of its key.
C30_TrieOrdering ==
    /\ [](pc \in {"tree", "walk", "end"} =>
            /\ \A node \in NodesOf(tree.root) :
                  /\ \A k \in 1..(Len(node.children) - 1) :
                        node.children[k].c < node.children[k + 1].c
                  /\ \A c \in Alphabet :
                        LET found == GetChildIndex(node, c)
                            hits == {k \in 0..(Len(node.children) - 1) : At(node.children, k).c = c}
                        IN /\ found.ok <=> hits # {}
                           /\ found.ok => hits = {found.i}
                           /\ ~found.ok =>
                                 /\ found.i \in 0..Len(node.children)
                                 /\ \A k \in 0..(Len(node.children) - 1) :
                                       (k < found.i) <=> (At(node.children, k).c < c)
            /\ \A key \in TextsUpTo(MaxKeyLen) :
                  LookupByScan(tree.root, key) = InsertedUnder(key))
    /\ [][(pc = "tree" /\ tree' # tree) =>
            /\ Len(log') = Len(log) + 1
            /\ \A key \in TextsUpTo(MaxKeyLen) :
                  LET old == LookupByScan(tree.root, key)
                      new == LookupByScan(tree'.root, key)
                  IN IF key = log'[Len(log')].key
                     THEN new = Append(old, log'[Len(log')].info)
                     ELSE new = old]_vars

\* Two keys were inserted, the larger first, so the second insert put its
\* node before the first one's, and a query then found a rule.
C30_Witness ==
    /\ pc = "end"
    /\ Len(log) >= 2
    /\ log[1].key # <<>> /\ log[2].key # <<>>
    /\ log[2].key[1] < log[1].key[1]
    /\ Len(tree.root.children) >= 2
    /\ yielded # <<>>

-----------------------------------------------------------------------------
(* Byte offsets of from_str *)

\* The sum of the UTF-8 widths of the last k characters of s.
WidthOfLast(s, k) == StrLen(SubSeq(s, Len(s) - k + 1, Len(s)))

\* C29: from_str never slices inside a character: the offset kept by the
\* scan after k prefixes is the sum of the widths of the last k characters,
\* it is at most the byte length, and the slice taken with it ends on a
\* character boundary and is the text without its last k characters; no
\* call fails, and the empty string returns the empty sequence.
C29_SliceOnBoundary ==
    scan.active =>
        /\ pc # "panic"
        /\ pc = "scan" =>
              /\ Len(scan.out) <= Len(scan.s)
              /\ scan.i = WidthOfLast(scan.s, Len(scan.out))
              /\ scan.i <= StrLen(scan.s)
              /\ IsCharBoundary(scan.s, StrLen(scan.s) - scan.i)
        /\ pc \in {"loop", "for", "append", "done"} =>
              /\ Len(scan.out) < Len(scan.s)
              /\ StrLen(this.source) = StrLen(scan.s) - WidthOfLast(scan.s, Len(scan.out))
              /\ IsCharBoundary(scan.s, StrLen(this.source))
              /\ this.source = SubSeq(scan.s, 1, Len(scan.s) - Len(scan.out))
              /\ scan.i = WidthOfLast(scan.s, Len(scan.out) + 1)
              /\ scan.i <= StrLen(scan.s)
        /\ pc = "returned" =>
              /\ Len(scan.out) = Len(scan.s)
              /\ scan.s = <<>> => scan.out = <<>>

\* A call on a text of three characters of three different widths, the
\* last one four bytes wide, has returned a Vec with one element per
\* character.
C29_Witness ==
    /\ pc = "returned"
    /\ Len(scan.s) = 3
    /\ LenUtf8(scan.s[3]) = 4
    /\ LenUtf8(scan.s[2]) \in {2, 3}
    /\ LenUtf8(scan.s[1]) \notin {4, LenUtf8(scan.s[2])}
    /\ Len(scan.out) = Len(scan.s)

-----------------------------------------------------------------------------
(* The rule index after its construction *)

\* C26: once LOOKUP_TREE is constructed it holds the tree built from the
\* rule table, and no step of from_word, from_str, chars_rev, to_string,
\* data or iter changes it; the tree changes in one step only, the first
\* deref, which constructs it.
C26_ReadOnlyIndex ==
    /\ [](tree.init => tree.root = InsertGroups(EmptyNode, table, 1))
    /\ [][tree.init => tree' = tree]_vars
    /\ [][tree' # tree => (~tree.init /\ tree'.init /\ pc = "loop" /\ calls = <<>>)]_vars

\* Two calls of from_word have returned, the second with candidates found
\* through the index, a reader has returned a text and a chars_rev iterator
\* has come to its end.
C26_Witness ==
    /\ pc = "done"
    /\ Len(calls) >= 2
    /\ Len(this.deinflections) >= 2
    /\ tree.init
    /\ tree.root.children # <<>>
    /\ out.called
    /\ rev.held /\ rev.ended /\ rev.emitted # <<>>

-----------------------------------------------------------------------------
(* The reconstructor, one request at a time *)

Max0(x) == IF x > 0 THEN x ELSE 0

\* The characters chars_rev(c) can yield at most: c's replacement, those of
\* its ancestors, and the word.
RECURSIVE TotalLen(_, _)
TotalLen(self, c) ==
    LET data == At(self.deinflections, c)
    IN Len(data.replace_with)
         + (IF data.source.tag = "Original" THEN Len(self.source)
            ELSE TotalLen(self, data.source.i))

\* C23: chars_rev(c) on a forest whose parent indices are smaller than the
\* child's enters, after c's own layer, at most one layer per ancestor and
\* then the original word, which is the last layer and entered once; every
\* request before the end yields one character, and the characters yielded
\* are no more than the layers hold, so the end comes after finitely many
\* requests; every request after the end signals the end again.
C23_FiniteSinglePass ==
    /\ []((pc = "test" /\ rev.held) =>
            /\ \A j \in Handles(this) :
                  At(this.deinflections, j).source.tag = "Deinflection" =>
                      At(this.deinflections, j).source.i < j
            /\ Len(rev.layers) <= DepthOf(this.deinflections, rev.d) + 2
            /\ rev.ended => Len(rev.layers) = DepthOf(this.deinflections, rev.d) + 2
            /\ \A m \in 1..Len(rev.layers) :
                  rev.layers[m].original <=> (rev.ended /\ m = Len(rev.layers))
                                             \/ (m = DepthOf(this.deinflections, rev.d) + 2)
            /\ \A m \in 2..Len(rev.layers) :
                  ~rev.layers[m].original =>
                      rev.layers[m].data =
                          At(this.deinflections, rev.layers[m - 1].data.source.i)
            /\ Len(rev.emitted) <= TotalLen(this, rev.d)
            /\ \A n \in 1..Len(rev.late) : ~rev.late[n].some)
    /\ [][(pc = "test" /\ rev.held /\ ~rev.ended) =>
            (rev'.ended \/ Len(rev'.emitted) = Len(rev.emitted) + 1)]_vars
    /\ [][(pc = "test" /\ rev.held /\ rev.ended) =>
            (rev'.ended /\ rev'.emitted = rev.emitted /\ rev'.layers = rev.layers)]_vars

\* The iterator of a candidate two rules from the root, over a word that
\* is not empty, has yielded two characters or more, come to its end and
\* been asked twice more.
C23_Witness ==
    /\ pc = "test"
    /\ rev.held /\ rev.ended
    /\ Len(rev.late) >= 2
    /\ DepthOf(this.deinflections, rev.d) = 2
    /\ Len(rev.layers) = 4
    /\ this.source # <<>>
    /\ rev.layers[4].emitted # <<>>
    /\ Len(rev.emitted) >= 2

\* C24: when chars_rev moves from a layer to its parent with
\* skip = replace_from_back + carry, the parent's Skip adaptor is created
\* with that skip, the characters yielded from the parent are the first
\* max(0, replace_with_chars - skip) characters of its replace_with, last
\* first, and the carry becomes max(0, skip - replace_with_chars), a
\* natural number; when it moves to the original word it yields the first
\* max(0, len - skip) characters of the word, last first.
C24_CarryArithmetic ==
    (pc = "test" /\ rev.held) =>
        \A m \in 2..Len(rev.layers) :
            LET from == rev.layers[m - 1]
                layer == rev.layers[m]
                skip == from.data.replace_from_back + from.carry
                closed == rev.ended \/ m < Len(rev.layers)
                text == IF layer.original THEN this.source ELSE layer.data.replace_with
                size == IF layer.original THEN Len(this.source)
                        ELSE layer.data.replace_with_chars
                kept == SubSeq(text, 1, Max0(size - skip))
                expected == [n \in 1..Len(kept) |-> kept[Len(kept) - n + 1]]
            IN /\ layer.n = skip
               /\ layer.original => from.data.source = Original /\ layer.carry = from.carry
               /\ ~layer.original =>
                     /\ layer.data = At(this.deinflections, from.data.source.i)
                     /\ layer.carry = Max0(skip - size)
               /\ layer.carry >= 0
               /\ Len(expected) = Max0(size - skip)
               /\ IsPrefix(layer.emitted, expected)
               /\ closed => layer.emitted = expected

\* A chain of three candidates read to its end: the top one removes more
\* than its parent holds, so nothing is yielded from the parent and the
\* carry reaches the candidate below it, which loses its last character to
\* it; the word is yielded whole.
C24_Witness ==
    /\ pc = "test"
    /\ rev.held /\ rev.ended
    /\ Len(rev.layers) = 4
    /\ rev.layers[1].data.replace_from_back = 2
    /\ rev.layers[2].data.replace_with_chars = 1
    /\ rev.layers[2].emitted = <<>>
    /\ rev.layers[2].carry = 1
    /\ rev.layers[3].data.replace_with_chars = 2
    /\ rev.layers[3].n = 1
    /\ Len(rev.layers[3].emitted) = 1
    /\ rev.layers[3].carry = 0
    /\ rev.layers[4].original
    /\ rev.layers[4].emitted = this.source
    /\ this.source # <<>>

====
